---------------------------- MODULE Spec2Model ----------------------------
(***************************************************************************)
(* Belief-revision diagnostic loop of the ads-diagnosis agent:             *)
(*   agent/scoring.py  score_feature, update_belief                        *)
(*   agent/policy.py   RULES, initialize_hypotheses, select_next_tool,     *)
(*                     update_beliefs_from_features, decide_actions,       *)
(*                     should_terminate                                    *)
(*   agent/loop.py     run_agent_loop, execute_tool                        *)
(*                                                                         *)
(* Python floats are modelled as exact rationals <<n, d>> (d > 0, lowest   *)
(* terms); Python's None is the empty tuple.                               *)
(***************************************************************************)
EXTENDS Integers, Sequences, FiniteSets, TLC

VARIABLES
    pc,                 \* position of the call in progress
    args,               \* arguments of the call in progress
    ret,                \* its outcome: None while it runs, Return(v) or Raise(e)
    step,               \* AgentContext.step
    hypotheses,         \* AgentContext.hypotheses: id -> [belief, previous_belief]
    tool_results,       \* AgentContext.tool_results: sequence of ToolResult
    last_tool,          \* AgentContext.last_tool
    last_gain,          \* AgentContext.last_gain
    trace_steps,        \* trace["steps"]: the step records appended so far
    exit_via            \* how the while loop of run_agent_loop was left

vars == <<pc, args, ret, step, hypotheses, tool_results, last_tool, last_gain,
          trace_steps, exit_via>>

\* The AgentContext the functions are handed.
Context ==
    [step |-> step, hypotheses |-> hypotheses, tool_results |-> tool_results,
     last_tool |-> last_tool, last_gain |-> last_gain]

None == <<>>

Return(v) == [kind |-> "return", val |-> v]

Raise(e) == [kind |-> "raise", val |-> e]

IsReturn(r) == r # None /\ r.kind = "return"

IsRaise(r) == r # None /\ r.kind = "raise"

---------------------------------------------------------------------------
(* Exact arithmetic standing for Python float arithmetic.                  *)

\* A float is the exact fraction <<numerator, denominator>> in lowest terms
\* with a positive denominator.  Each operation binds its operands as values
\* before it computes, and divides common factors out before it multiplies,
\* so that intermediate products stay small.

Abs(i) == IF i < 0 THEN -i ELSE i

GCD(a, b) ==
    LET gcd[x \in Nat, y \in Nat] == IF y = 0 THEN x ELSE gcd[y, x % y]
    IN  gcd[a, b]

Q(n, d) ==
    CHOOSE q \in {<<((IF j < 0 THEN -1 ELSE 1) * i) \div g, Abs(j) \div g>> :
                     <<i, j, g>> \in {<<n, d, GCD(Abs(n), Abs(d))>>}} : TRUE

Zero == <<0, 1>>

One == <<1, 1>>

RAdd(x, y) ==
    CHOOSE r \in {Q(a[1] * (b[2] \div g) + b[1] * (a[2] \div g), (a[2] \div g) * b[2]) :
                     <<a, b, g>> \in {<<x, y, GCD(x[2], y[2])>>}} : TRUE

RNeg(x) == CHOOSE r \in {<<-a[1], a[2]>> : a \in {x}} : TRUE

RSub(x, y) == RAdd(x, RNeg(y))

RMul(x, y) ==
    CHOOSE r \in {Q((a[1] \div g) * (b[1] \div h), (a[2] \div h) * (b[2] \div g)) :
                     <<a, b, g, h>> \in {<<x, y, GCD(Abs(x[1]), y[2]),
                                           GCD(Abs(y[1]), x[2])>>}} : TRUE

RDiv(x, y) ==
    CHOOSE r \in {Q(a[1] * b[2], a[2] * b[1]) : a \in {x}, b \in {y}} : TRUE

RLt(x, y) ==
    \E <<a, b, g>> \in {<<x, y, GCD(x[2], y[2])>>} :
        a[1] * (b[2] \div g) < b[1] * (a[2] \div g)

RLe(x, y) ==
    \E <<a, b, g>> \in {<<x, y, GCD(x[2], y[2])>>} :
        a[1] * (b[2] \div g) <= b[1] * (a[2] \div g)

RAbs(x) == CHOOSE r \in {<<Abs(a[1]), a[2]>> : a \in {x}} : TRUE

\* Python's min(a, b) and max(a, b): the first argument wins ties.
RMin(x, y) ==
    CHOOSE r \in {IF RLt(b, a) THEN b ELSE a : a \in {x}, b \in {y}} : TRUE

RMax(x, y) ==
    CHOOSE r \in {IF RLt(a, b) THEN b ELSE a : a \in {x}, b \in {y}} : TRUE

RECURSIVE RSum(_)
RSum(s) == IF s = <<>> THEN Zero ELSE RAdd(s[1], RSum(Tail(s)))

---------------------------------------------------------------------------
(* Feature values: an int, a float or a str, as the probes return them.    *)

VInt(n) == [t |-> "int", q |-> Q(n, 1), s |-> ""]

VFloat(n, d) == [t |-> "float", q |-> Q(n, d), s |-> ""]

VStr(str) == [t |-> "str", q |-> Zero, s |-> str]

\* Python's str(): a str is itself, an int prints its digits, a float prints
\* with a decimal point (values with at most two decimals are printed).
Digits(n) == ToString(n)

FloatStr(q) ==
    LET h    == (Abs(q[1]) * 100) \div q[2]
        ip   == h \div 100
        d1   == (h % 100) \div 10
        d2   == h % 10
        sign == IF q[1] < 0 THEN "-" ELSE ""
    IN  sign \o Digits(ip) \o "." \o Digits(d1) \o (IF d2 = 0 THEN "" ELSE Digits(d2))

PyStr(v) ==
    CASE v.t = "str"   -> v.s
      [] v.t = "int"   -> (IF v.q[1] < 0 THEN "-" ELSE "") \o Digits(Abs(v.q[1]))
      [] v.t = "float" -> FloatStr(v.q)

\* dict.get(key, default)
Get(d, key, default) == IF key \in DOMAIN d THEN d[key] ELSE default

---------------------------------------------------------------------------
(* agent/scoring.py                                                        *)

ALPHA == Q(1, 5)

\* score_feature with the count rule's test written value > thr.
score_feature_strict_count(value, rule) ==
    LET thr == Get(rule, "thr", Zero)
        v   == value.q
    IN  CASE Get(rule, "type", "") = "count" /\ Get(rule, "direction", "") = "higher_better" ->
                IF RLt(thr, v) /\ thr # Zero
                THEN Return(RMin(One, RDiv(RSub(v, thr), thr)))
                ELSE Return(Q(-2, 10))
          [] OTHER -> Return(Zero)

\* score_feature(value, rule): Return(score) or Raise("ZeroDivisionError").
score_feature(value, rule) ==
    LET rule_type == Get(rule, "type", "")
        thr       == Get(rule, "thr", Zero)
        direction == Get(rule, "direction", "")
        v         == value.q
        \* (thr - value) / thr, then min(1.0, distance)
        distance  == IF thr = Zero THEN Raise("ZeroDivisionError")
                     ELSE Return(RMin(One, RDiv(RSub(thr, v), thr)))
    IN  CASE rule_type = "ratio" /\ direction = "lower_better" ->
                IF RLt(v, thr) THEN distance ELSE Return(Q(-3, 10))
          [] rule_type = "count" /\ direction = "higher_better" ->
                IF RLe(thr, v)
                THEN IF thr = Zero THEN Raise("ZeroDivisionError")
                     ELSE Return(RMin(One, RDiv(RSub(v, thr), thr)))
                ELSE Return(Q(-2, 10))
          [] rule_type = "threshold" /\ direction = "higher_worse" ->
                IF RLt(thr, v) THEN Return(One) ELSE Return(Q(-2, 10))
          [] rule_type = "threshold" /\ direction = "lower_worse" ->
                IF RLt(v, thr) THEN distance ELSE Return(Q(-2, 10))
          [] rule_type = "gap" /\ direction = "lower_worse" ->
                IF RLt(v, thr)
                THEN LET severity == IF thr # Zero
                                     THEN RDiv(RAbs(RSub(v, thr)), RAbs(thr))
                                     ELSE One
                     IN  Return(RMin(One, severity))
                ELSE Return(Q(-1, 10))
          [] rule_type = "categorical" ->
                IF \E i \in 1..Len(Get(rule, "bad_values", <<>>)) :
                       Get(rule, "bad_values", <<>>)[i] = PyStr(value)
                THEN Return(One) ELSE Return(Q(-2, 10))
          [] OTHER -> Return(Zero)

\* update_belief without the final clamp.
update_belief_unclamped(belief, alpha, scores) ==
    IF scores = <<>> THEN <<belief, Zero>>
    ELSE LET avg_score == RDiv(RSum(scores), Q(Len(scores), 1))
             moved     == IF RLt(Zero, avg_score)
                          THEN RAdd(belief, RMul(RMul(alpha, avg_score), RSub(One, belief)))
                          ELSE RAdd(belief, RMul(RMul(alpha, avg_score), belief))
         IN  <<moved, RSub(moved, belief)>>

\* update_belief with the room (1 - belief) used for negative evidence too.
update_belief_symmetric(belief, alpha, scores) ==
    IF scores = <<>> THEN <<belief, Zero>>
    ELSE LET avg_score == RDiv(RSum(scores), Q(Len(scores), 1))
             moved     == RAdd(belief, RMul(RMul(alpha, avg_score), RSub(One, belief)))
             clamped   == RMax(Zero, RMin(One, moved))
         IN  <<clamped, RSub(clamped, belief)>>

\* update_belief with the negative branch subtracting instead of adding.
update_belief_signflip(belief, alpha, scores) ==
    IF scores = <<>> THEN <<belief, Zero>>
    ELSE LET avg_score == RDiv(RSum(scores), Q(Len(scores), 1))
             moved     == IF RLt(Zero, avg_score)
                          THEN RAdd(belief, RMul(RMul(alpha, avg_score), RSub(One, belief)))
                          ELSE RSub(belief, RMul(RMul(alpha, avg_score), belief))
             clamped   == RMax(Zero, RMin(One, moved))
         IN  <<clamped, RSub(clamped, belief)>>

\* update_belief with the two branches' factors exchanged.
update_belief_swapped(belief, alpha, scores) ==
    IF scores = <<>> THEN <<belief, Zero>>
    ELSE LET avg_score == RDiv(RSum(scores), Q(Len(scores), 1))
             moved     == IF RLt(Zero, avg_score)
                          THEN RAdd(belief, RMul(RMul(alpha, avg_score), belief))
                          ELSE RAdd(belief, RMul(RMul(alpha, avg_score), RSub(One, belief)))
             clamped   == RMax(Zero, RMin(One, moved))
         IN  <<clamped, RSub(clamped, belief)>>

\* update_belief(belief, alpha, scores): the pair <<new belief, change>>.
update_belief(belief, alpha, scores) ==
    IF scores = <<>> THEN <<belief, Zero>>
    ELSE LET avg_score  == RDiv(RSum(scores), Q(Len(scores), 1))
             old_belief == belief
             moved      == IF RLt(Zero, avg_score)
                           THEN RAdd(belief, RMul(RMul(alpha, avg_score), RSub(One, belief)))
                           ELSE RAdd(belief, RMul(RMul(alpha, avg_score), belief))
             clamped    == RMax(Zero, RMin(One, moved))
         IN  <<clamped, RSub(clamped, old_belief)>>

---------------------------------------------------------------------------
(* Python values whose type the code does not fix: a tool name may be a    *)
(* str, None, or (where a caller passes it on unopened) a returned tuple.  *)

PNone == [py |-> "None", v |-> <<>>]

PStr(str) == [py |-> "str", v |-> str]

PTuple(items) == [py |-> "tuple", v |-> items]

\* a == b
PyEq(a, b) == a.py = b.py /\ a.v = b.v

\* bool(x): None and empty strings and tuples are false, all else true.
Truthy(x) ==
    CASE x.py = "None"  -> FALSE
      [] x.py = "str"   -> x.v # ""
      [] x.py = "tuple" -> Len(x.v) > 0

---------------------------------------------------------------------------
(* agent/policy.py: the registry and the rule table, in insertion order.   *)

HYPOTHESIS_DEFINITIONS ==
    << [id |-> "H1", name |-> "bid_too_low"],
       [id |-> "H2", name |-> "too_few_keywords"],
       [id |-> "H3", name |-> "competitor_pressure"],
       [id |-> "H4", name |-> "listing_quality"],
       [id |-> "H5", name |-> "broad_match_waste"],
       [id |-> "H6", name |-> "low_inventory"] >>

HypIds == {HYPOTHESIS_DEFINITIONS[i].id : i \in 1..Len(HYPOTHESIS_DEFINITIONS)}

Rule(t, f, x, d) == [type |-> t, feature |-> f, thr |-> x, direction |-> d]

RULES ==
    << [tool |-> "AdsMetrics", table |->
           << [id |-> "H1", rules |->
                  << Rule("ratio", "avg_cpc_ratio", Q(6, 10), "lower_better") >>],
              [id |-> "H2", rules |->
                  << Rule("count", "keyword_count", Q(5, 1), "higher_better") >>],
              [id |-> "H5", rules |->
                  << Rule("threshold", "broad_acos", Q(6, 10), "higher_worse") >>] >>],
       [tool |-> "ListingAudit", table |->
           << [id |-> "H4", rules |->
                  << Rule("threshold", "main_image_score", Q(6, 10), "lower_worse"),
                     Rule("threshold", "rating", Q(4, 1), "lower_worse"),
                     Rule("count", "reviews", Q(50, 1), "higher_better") >>] >>],
       [tool |-> "Competitor", table |->
           << [id |-> "H3", rules |->
                  << Rule("threshold", "sponsored_share", Q(35, 100), "higher_worse"),
                     Rule("gap", "comp_price_gap", Q(-5, 100), "lower_worse") >>] >>],
       [tool |-> "Inventory", table |->
           << [id |-> "H6", rules |->
                  << Rule("threshold", "days_of_inventory", Q(14, 1), "lower_worse"),
                     [type |-> "categorical", feature |-> "stockout_risk",
                      bad_values |-> <<"high", "critical">>] >>] >> ] >>

ToolNames == {RULES[i].tool : i \in 1..Len(RULES)}

\* RULES[tool_name], for a tool_name in RULES
ToolRules(tool_name) ==
    RULES[CHOOSE i \in 1..Len(RULES) : RULES[i].tool = tool_name].table

\* hyp_id in tool_rules
HasHyp(tool_rules, hyp_id) == \E j \in 1..Len(tool_rules) : tool_rules[j].id = hyp_id

\* tool_rules[hyp_id]
HypRules(tool_rules, hyp_id) ==
    tool_rules[CHOOSE j \in 1..Len(tool_rules) : tool_rules[j].id = hyp_id].rules

Goals == {"increase_impressions", "reduce_acos", "improve_conversion"}

\* initialize_hypotheses with the reduce_acos bonus also given to H6.
initialize_hypotheses_bonus_H6(goal) ==
    [i \in 1..Len(HYPOTHESIS_DEFINITIONS) |->
        LET hyp_id == HYPOTHESIS_DEFINITIONS[i].id
            bonus  ==
                \/ goal = "increase_impressions" /\ hyp_id \in {"H1", "H2"}
                \/ goal = "reduce_acos" /\ hyp_id \in {"H5", "H6"}
                \/ goal = "improve_conversion" /\ hyp_id = "H4"
        IN  [id |-> hyp_id, name |-> HYPOTHESIS_DEFINITIONS[i].name,
             belief |-> IF bonus THEN Q(35, 100) ELSE Q(30, 100),
             previous_belief |-> None]]

\* initialize_hypotheses with the improve_conversion bonus also given to H3.
initialize_hypotheses_bonus_H3(goal) ==
    [i \in 1..Len(HYPOTHESIS_DEFINITIONS) |->
        LET hyp_id == HYPOTHESIS_DEFINITIONS[i].id
            bonus  ==
                \/ goal = "increase_impressions" /\ hyp_id \in {"H1", "H2"}
                \/ goal = "reduce_acos" /\ hyp_id = "H5"
                \/ goal = "improve_conversion" /\ hyp_id \in {"H3", "H4"}
        IN  [id |-> hyp_id, name |-> HYPOTHESIS_DEFINITIONS[i].name,
             belief |-> IF bonus THEN Q(35, 100) ELSE Q(30, 100),
             previous_belief |-> None]]

initialize_hypotheses(goal) ==
    [i \in 1..Len(HYPOTHESIS_DEFINITIONS) |->
        LET hyp_id      == HYPOTHESIS_DEFINITIONS[i].id
            base_belief == Q(30, 100)
            bonus       == Q(5, 100)
            belief      ==
                IF goal = "increase_impressions"
                THEN (IF hyp_id \in {"H1", "H2"} THEN RAdd(base_belief, bonus) ELSE base_belief)
                ELSE IF goal = "reduce_acos"
                THEN (IF hyp_id = "H5" THEN RAdd(base_belief, bonus) ELSE base_belief)
                ELSE IF goal = "improve_conversion"
                THEN (IF hyp_id = "H4" THEN RAdd(base_belief, bonus) ELSE base_belief)
                ELSE base_belief
        IN  [id |-> hyp_id, name |-> HYPOTHESIS_DEFINITIONS[i].name,
             belief |-> belief, previous_belief |-> None]]

\* max(h.belief for h in hyps)
MaxBelief(hyps) ==
    hyps[CHOOSE i \in 1..Len(hyps) :
            \A j \in 1..Len(hyps) : RLe(hyps[j].belief, hyps[i].belief)].belief

\* max(hyps, key=lambda h: h.belief): the first hypothesis of maximal belief
\* max() returning the last of several maximal hypotheses.
TopHypothesis_last_maximal(hyps) ==
    hyps[CHOOSE i \in 1..Len(hyps) :
            /\ \A j \in 1..Len(hyps) : RLe(hyps[j].belief, hyps[i].belief)
            /\ \A j \in (i + 1)..Len(hyps) : RLt(hyps[j].belief, hyps[i].belief)]

TopHypothesis(hyps) ==
    hyps[CHOOSE i \in 1..Len(hyps) :
            /\ \A j \in 1..Len(hyps) : RLe(hyps[j].belief, hyps[i].belief)
            /\ \A j \in 1..(i - 1) : RLt(hyps[j].belief, hyps[i].belief)]

\* should_terminate with the hard step cap tested before the threshold.
should_terminate_cap_first(context) ==
    IF context.step < 3 THEN <<FALSE, <<>>>>
    ELSE LET max_belief     == MaxBelief(context.hypotheses)
             top_hypothesis == TopHypothesis(context.hypotheses)
         IN  IF context.step >= 5
             THEN <<TRUE, <<"step_limit", context.step, top_hypothesis.name, max_belief>>>>
             ELSE IF RLe(Q(42, 100), max_belief)
             THEN <<TRUE, <<"confidence", top_hypothesis.name, max_belief>>>>
             ELSE <<FALSE, <<>>>>

\* should_terminate without the minimum-exploration floor.
should_terminate_no_floor(context) ==
    LET max_belief     == MaxBelief(context.hypotheses)
        top_hypothesis == TopHypothesis(context.hypotheses)
    IN  IF RLe(Q(42, 100), max_belief)
        THEN <<TRUE, <<"confidence", top_hypothesis.name, max_belief>>>>
        ELSE IF context.step >= 5
        THEN <<TRUE, <<"step_limit", context.step, top_hypothesis.name, max_belief>>>>
        ELSE <<FALSE, <<>>>>

\* should_terminate(context): the pair <<terminate, reason>>; the reason is
\* the empty string (<<>>) or the text's content as a tuple.
should_terminate(context) ==
    IF context.step < 3 THEN <<FALSE, <<>>>>
    ELSE LET max_belief     == MaxBelief(context.hypotheses)
             top_hypothesis == TopHypothesis(context.hypotheses)
         IN  IF RLe(Q(42, 100), max_belief)
             THEN <<TRUE, <<"confidence", top_hypothesis.name, max_belief>>>>
             ELSE IF context.step >= 5
             THEN <<TRUE, <<"step_limit", context.step, top_hypothesis.name, max_belief>>>>
             ELSE <<FALSE, <<>>>>

\* The sort with hypotheses of equal belief in reversed list order.
SortedByBelief_ties_reversed(hyps) ==
    LET Ahead(j, i) == \/ RLt(hyps[i].belief, hyps[j].belief)
                       \/ (i < j /\ ~RLt(hyps[j].belief, hyps[i].belief))
        Place(i)    == Cardinality({j \in 1..Len(hyps) : Ahead(j, i)}) + 1
    IN  [p \in 1..Len(hyps) |-> hyps[CHOOSE i \in 1..Len(hyps) : Place(i) = p]]

\* sorted(hypotheses, key=lambda h: h.belief, reverse=True): stable, so
\* hypotheses of equal belief keep their list order.  The hypothesis at
\* index i lands behind those of larger belief and the earlier ones of equal
\* belief.
SortedByBelief(hyps) ==
    LET Ahead(j, i) == \/ RLt(hyps[i].belief, hyps[j].belief)
                       \/ (j < i /\ ~RLt(hyps[j].belief, hyps[i].belief))
        Place(i)    == Cardinality({j \in 1..Len(hyps) : Ahead(j, i)}) + 1
    IN  [p \in 1..Len(hyps) |-> hyps[CHOOSE i \in 1..Len(hyps) : Place(i) = p]]

RECURSIVE Flatten(_)
Flatten(seqs) == IF seqs = <<>> THEN <<>> ELSE Head(seqs) \o Flatten(Tail(seqs))

ToolSeq == [i \in 1..Len(RULES) |-> RULES[i].tool]

\* hypothesis_tools: the tools of RULES, in order, that are keyed to hyp_id
HypothesisTools(hyp_id) ==
    LET Keyed(tool_name) == HasHyp(ToolRules(tool_name), hyp_id)
    IN  SelectSeq(ToolSeq, Keyed)

ExecutedTools(context) ==
    {context.tool_results[i].tool_name :
        i \in {k \in 1..Len(context.tool_results) : context.tool_results[k].ok}}

FailedTools(context) ==
    {context.tool_results[i].tool_name :
        i \in {k \in 1..Len(context.tool_results) : ~context.tool_results[k].ok}}

\* The test without the failed set.
Selectable_retry_failed(context, tool_name) ==
    /\ tool_name \notin {context.tool_results[i].tool_name :
                            i \in {k \in 1..Len(context.tool_results) :
                                       context.tool_results[k].ok}}
    /\ ~ (/\ context.last_tool.py = "str" /\ context.last_tool.v = tool_name
          /\ RLt(context.last_gain, Q(5, 100))
          /\ \E k \in 1..Len(context.tool_results) : context.tool_results[k].ok)

\* The test without the low-gain guard.
Selectable_no_gain_guard(context, tool_name) ==
    tool_name \notin {context.tool_results[i].tool_name :
                         i \in 1..Len(context.tool_results)}

\* The test with a guard that does not look at which probe ran last.
Selectable_guard_any_probe(context, tool_name) ==
    /\ tool_name \notin ExecutedTools(context)
    /\ tool_name \notin FailedTools(context)
    /\ ~ (/\ RLt(context.last_gain, Q(5, 100))
          /\ Cardinality(ExecutedTools(context)) > 0)

\* The test that lets the scan return tool_name (policy.py:193-199).
Selectable(context, tool_name) ==
    /\ tool_name \notin ExecutedTools(context)
    /\ tool_name \notin FailedTools(context)
    /\ ~ (/\ PyEq(context.last_tool, PStr(tool_name))
          /\ RLt(context.last_gain, Q(5, 100))
          /\ Cardinality(ExecutedTools(context)) > 0)

\* select_next_tool(context): the pair <<tool name or None, reasoning text>>.
select_next_tool(context) ==
    LET Scan(sorted_hypotheses) ==
            Flatten([i \in 1..Len(sorted_hypotheses) |->
                        HypothesisTools(sorted_hypotheses[i].id)])
        FirstOf(scan) ==
            LET hits == {i \in 1..Len(scan) : Selectable(context, scan[i])}
            IN  IF hits = {} THEN <<PNone, "reasoning">>
                ELSE <<PStr(scan[CHOOSE i \in hits : \A j \in hits : i <= j]),
                       "reasoning">>
    IN  CHOOSE selected \in
            {FirstOf(scan) :
                scan \in {Scan(sorted_hypotheses) :
                    sorted_hypotheses \in {SortedByBelief(context.hypotheses)}}} : TRUE

\* The inner loop as one update_belief call with the scores of all the rules
\* whose feature is present.
ApplyRules_batched(name, belief, rules, features) ==
    LET Present(rule) == rule.feature \in DOMAIN features
        present == SelectSeq(rules, Present)
        scores  == [k \in 1..Len(present) |->
                       score_feature(features[present[k].feature], present[k]).val]
        moved   == update_belief(belief, ALPHA, scores)
    IN  [belief  |-> moved[1],
         updates |-> [k \in 1..Len(present) |->
                        [hypothesis |-> name, feature |-> present[k].feature,
                         feature_value |-> features[present[k].feature],
                         score |-> scores[k], old_belief |-> belief,
                         new_belief |-> moved[1], change |-> moved[2]]]]

\* The inner loop reading an absent feature as 0 (features.get(name, 0)).
RECURSIVE ApplyRules_absent_as_zero(_, _, _, _)
ApplyRules_absent_as_zero(name, belief, rules, features) ==
    IF rules = <<>> THEN [belief |-> belief, updates |-> <<>>]
    ELSE LET rule          == Head(rules)
             feature_value == IF rule.feature \in DOMAIN features
                              THEN features[rule.feature] ELSE VInt(0)
             score         == score_feature(feature_value, rule).val
             moved         == update_belief(belief, ALPHA, <<score>>)
             rest          == ApplyRules_absent_as_zero(name, moved[1], Tail(rules),
                                                        features)
         IN  [belief  |-> rest.belief,
              updates |-> <<[hypothesis |-> name, feature |-> rule.feature,
                             feature_value |-> feature_value, score |-> score,
                             old_belief |-> belief, new_belief |-> moved[1],
                             change |-> moved[2]]>> \o rest.updates]

\* The inner loop over one hypothesis's rules (policy.py:247-278): each rule
\* whose feature is present scores it and updates the belief on its own.
RECURSIVE ApplyRules(_, _, _, _)
ApplyRules(name, belief, rules, features) ==
    IF rules = <<>> THEN [belief |-> belief, updates |-> <<>>]
    ELSE LET rule == Head(rules)
             feature_name == rule.feature
         IN  IF feature_name \in DOMAIN features
             THEN LET feature_value == features[feature_name]
                      Step(old_belief, score, moved, rest) ==
                          [belief  |-> rest.belief,
                           updates |-> <<[hypothesis |-> name, feature |-> feature_name,
                                          feature_value |-> feature_value,
                                          score |-> score, old_belief |-> old_belief,
                                          new_belief |-> moved[1],
                                          change |-> moved[2]]>> \o rest.updates]
                      Rest(old_belief, score, moved) ==
                          CHOOSE out \in
                              {Step(old_belief, score, moved, rest) :
                                  rest \in {ApplyRules(name, moved[1], Tail(rules),
                                                       features)}} : TRUE
                      Move(old_belief, score) ==
                          CHOOSE out \in
                              {Rest(old_belief, score, moved) :
                                  moved \in {update_belief(old_belief, ALPHA,
                                                           <<score>>)}} : TRUE
                  IN  CHOOSE out \in
                          {Move(old_belief, score) :
                              old_belief \in {belief},
                              score \in {score_feature(feature_value, rule).val}} : TRUE
             ELSE ApplyRules(name, belief, Tail(rules), features)

\* update_beliefs_from_features saving previous_belief before the test of
\* hypothesis.id against the rule table of the probe.
update_beliefs_from_features_saves_first(hyps, tool_name, features) ==
    IF tool_name.py # "str" \/ tool_name.v \notin ToolNames
    THEN [hypotheses |-> hyps, updates |-> <<>>]
    ELSE LET tool_rules == ToolRules(tool_name.v)
             Applied(h) == ApplyRules(h.name, h.belief, HypRules(tool_rules, h.id), features)
             Saved(h)   == [h EXCEPT !.previous_belief =
                                IF h.previous_belief = None THEN h.belief
                                ELSE h.previous_belief]
         IN  [hypotheses |->
                 [i \in 1..Len(hyps) |->
                     IF ~HasHyp(tool_rules, hyps[i].id) THEN Saved(hyps[i])
                     ELSE [Saved(hyps[i]) EXCEPT !.belief = Applied(hyps[i]).belief]],
              updates |->
                 Flatten([i \in 1..Len(hyps) |->
                     IF ~HasHyp(tool_rules, hyps[i].id) THEN <<>>
                     ELSE Applied(hyps[i]).updates])]

\* update_beliefs_from_features overwriting previous_belief at every call.
update_beliefs_from_features_saves_always(hyps, tool_name, features) ==
    IF tool_name.py # "str" \/ tool_name.v \notin ToolNames
    THEN [hypotheses |-> hyps, updates |-> <<>>]
    ELSE LET tool_rules == ToolRules(tool_name.v)
             Applied(h) == ApplyRules(h.name, h.belief, HypRules(tool_rules, h.id), features)
         IN  [hypotheses |->
                 [i \in 1..Len(hyps) |->
                     IF ~HasHyp(tool_rules, hyps[i].id) THEN hyps[i]
                     ELSE [hyps[i] EXCEPT !.previous_belief = hyps[i].belief,
                                          !.belief = Applied(hyps[i]).belief]],
              updates |->
                 Flatten([i \in 1..Len(hyps) |->
                     IF ~HasHyp(tool_rules, hyps[i].id) THEN <<>>
                     ELSE Applied(hyps[i]).updates])]

\* update_beliefs_from_features(hypotheses, tool_name, features): the list as
\* mutated in place, and the returned update records.
update_beliefs_from_features(hyps, tool_name, features) ==
    IF tool_name.py # "str" \/ tool_name.v \notin ToolNames
    THEN [hypotheses |-> hyps, updates |-> <<>>]
    ELSE LET tool_rules == ToolRules(tool_name.v)
             Applied(h) == ApplyRules(h.name, h.belief, HypRules(tool_rules, h.id), features)
         IN  [hypotheses |->
                 [i \in 1..Len(hyps) |->
                     IF ~HasHyp(tool_rules, hyps[i].id) THEN hyps[i]
                     ELSE [hyps[i] EXCEPT
                             !.previous_belief =
                                 IF hyps[i].previous_belief = None THEN hyps[i].belief
                                 ELSE hyps[i].previous_belief,
                             !.belief = Applied(hyps[i]).belief]],
              updates |->
                 Flatten([i \in 1..Len(hyps) |->
                     IF ~HasHyp(tool_rules, hyps[i].id) THEN <<>>
                     ELSE Applied(hyps[i]).updates])]

\* _generate_actions_for_hypothesis: the static templates, by description.
ActionTemplates(hyp_id) ==
    CASE hyp_id = "H1" -> <<"raise_keyword_bids", "watch_converting_keyword_bids">>
      [] hyp_id = "H2" -> <<"extend_keyword_list", "mine_keywords_with_auto_ads">>
      [] hyp_id = "H3" -> <<"adjust_pricing", "target_long_tail_keywords">>
      [] hyp_id = "H4" -> <<"improve_images", "improve_title_and_bullets", "build_a_plus_content">>
      [] hyp_id = "H5" -> <<"add_negative_keywords", "narrow_match_types">>
      [] hyp_id = "H6" -> <<"restock_now", "lower_ad_spend">>
      [] OTHER -> <<>>

\* actions[:3]
FirstThree(actions) ==
    SubSeq(actions, 1, IF Len(actions) < 3 THEN Len(actions) ELSE 3)

generate_actions_for_hypothesis(hypothesis, context) ==
    FirstThree(ActionTemplates(hypothesis.id))

\* decide_actions(context): the ActionStrategy.
decide_actions(context) ==
    LET top_hypothesis == TopHypothesis(context.hypotheses)
    IN  [primary_hypothesis |-> top_hypothesis.name,
         confidence |-> top_hypothesis.belief,
         actions    |-> generate_actions_for_hypothesis(top_hypothesis, context),
         reasoning  |-> [n_results |-> Len(context.tool_results),
                         diagnosis |-> top_hypothesis.name,
                         confidence |-> top_hypothesis.belief,
                         lines |-> [i \in 1..Len(context.tool_results) |->
                                       <<context.tool_results[i].tool_name,
                                         context.tool_results[i].ok>>]]]

---------------------------------------------------------------------------
(* tools/*.py as execute_tool sees them: each probe reads its mock file    *)
(* and returns a result with features, or raises.                          *)

\* load_mock_data: a mock file is <<>> when it is absent from the scenario
\* directory, <<features>> when it is there and complete, and <<features,
\* defect>> when it is there but is not valid JSON ("malformed") or lacks a
\* field its probe requires ("incomplete").
load_mock_data(file) ==
    IF file = <<>> THEN Raise("FileNotFoundError")
    ELSE IF Len(file) = 2 /\ file[2] = "malformed" THEN Raise("ParseError")
    ELSE Return(file)

\* A probe function: load the file, check the required fields, derive the
\* features.
probe(file) ==
    LET loaded == load_mock_data(file)
    IN  IF IsRaise(loaded) THEN loaded
        ELSE IF Len(file) = 2 THEN Raise("DataMissingError")
        ELSE Return([data |-> <<>>, features |-> file[1]])

analyze_ads_metrics(mock, mode) ==
    IF mode = "keyword" THEN probe(mock.ads_keywords) ELSE probe(mock.ads_campaign)

audit_listing_quality(mock) == probe(mock.listing_audit)

analyze_competitors(mock, break_competitor) ==
    IF break_competitor THEN Raise("ToolTimeoutError") ELSE probe(mock.competitor)

check_inventory_status(mock) == probe(mock.inventory)

---------------------------------------------------------------------------
(* agent/loop.py                                                           *)

\* ToolResult(tool_name=..., ...): the model validates tool_name: str.
ToolResult(tool_name, ok, features, error) ==
    IF tool_name.py = "str"
    THEN Return([tool_name |-> tool_name.v, ok |-> ok, features |-> features,
                 error |-> error])
    ELSE Raise("ValidationError")

\* execute_tool with no except clause around the probe call.
execute_tool_uncaught(tool_name, mock, mode, break_competitor) ==
    LET result ==
            IF tool_name.py # "str" THEN Raise("ValueError")
            ELSE CASE tool_name.v = "AdsMetrics"   -> analyze_ads_metrics(mock, mode)
                   [] tool_name.v = "ListingAudit" -> audit_listing_quality(mock)
                   [] tool_name.v = "Competitor"   -> analyze_competitors(mock, break_competitor)
                   [] tool_name.v = "Inventory"    -> check_inventory_status(mock)
                   [] OTHER -> Raise("ValueError")
    IN  IF IsReturn(result)
        THEN ToolResult(tool_name, TRUE, <<Get(result.val, "features", <<>>)>>, None)
        ELSE result

\* execute_tool: Return(ToolResult), or Raise when building the failed
\* result raises inside the except clause.
execute_tool(tool_name, mock, mode, break_competitor) ==
    LET result ==
            IF tool_name.py # "str" THEN Raise("ValueError")
            ELSE CASE tool_name.v = "AdsMetrics"   -> analyze_ads_metrics(mock, mode)
                   [] tool_name.v = "ListingAudit" -> audit_listing_quality(mock)
                   [] tool_name.v = "Competitor"   -> analyze_competitors(mock, break_competitor)
                   [] tool_name.v = "Inventory"    -> check_inventory_status(mock)
                   [] OTHER -> Raise("ValueError")
    IN  IF IsReturn(result)
        THEN ToolResult(tool_name, TRUE, <<Get(result.val, "features", <<>>)>>, None)
        ELSE ToolResult(tool_name, FALSE, None, <<result.val>>)

\* The test as it would read with the pair unpacked first.
TerminationTest_unpacked(decision) == decision[1]

\* `if should_terminate(context):` tests the returned pair itself.
TerminationTest(decision) == Truthy(PTuple(decision))

\* `if not selected_tool:` tests the returned pair itself.
NoToolSelected(selected_tool) == ~Truthy(selected_tool)

\* `if tool_result.features:`
HasFeatures(tool_result) ==
    tool_result.features # None /\ DOMAIN tool_result.features[1] # {}

\* h.previous_belief or h.belief
PreviousOrBelief(h) ==
    IF h.previous_belief = None \/ h.previous_belief = Zero THEN h.belief
    ELSE h.previous_belief

\* max(h.previous_belief or h.belief for h in hypotheses)
PreviousMax(hyps) ==
    PreviousOrBelief(hyps[CHOOSE i \in 1..Len(hyps) :
        \A j \in 1..Len(hyps) : RLe(PreviousOrBelief(hyps[j]), PreviousOrBelief(hyps[i]))])

\* The mock files of a scenario directory: present with features, absent, or
\* present with a defect.
Found(features) == <<features>>

Missing == <<>>

Defective(features, defect) == <<features, defect>>

KeywordFeatures ==
    [avg_cpc_ratio |-> VFloat(2, 5), keyword_count |-> VInt(3), broad_acos |-> VFloat(4, 5)]

CampaignFeatures == [campaign_count |-> VInt(2), campaign_acos |-> VFloat(1, 2)]

ListingFeatures ==
    [main_image_score |-> VFloat(1, 2), rating |-> VFloat(7, 2), reviews |-> VInt(75)]

CompetitorFeatures == [sponsored_share |-> VFloat(9, 20), comp_price_gap |-> VFloat(-3, 20)]

InventoryFeatures == [days_of_inventory |-> VInt(7), stockout_risk |-> VStr("high")]

MockPool ==
    [ads_keywords  : {Found(KeywordFeatures), Missing},
     ads_campaign  : {Found(CampaignFeatures)},
     listing_audit : {Found(ListingFeatures), Missing},
     competitor    : {Found(CompetitorFeatures), Missing},
     inventory     : {Found(InventoryFeatures), Missing}]

RunCalls ==
    [fn : {"run_agent_loop"}, goal : Goals, mode : {"keyword", "campaign"},
     break_competitor : BOOLEAN, mock : MockPool]

\* run_agent_loop, lines 33-47: the context and the trace at entry.
Init ==
    /\ pc = "while"
    /\ args \in RunCalls
    /\ ret = None
    /\ step = 0
    /\ hypotheses = initialize_hypotheses(args.goal)
    /\ tool_results = <<>>
    /\ last_tool = PNone
    /\ last_gain = Zero
    /\ trace_steps = <<>>
    /\ exit_via = "none"

\* Lines 53-64: the while test, the step increment and the observation.
\* A loop whose condition is false from the start.
loop_head_never_enters ==
    /\ pc = "while"
    /\ pc' = "final"
    /\ exit_via' = "while"
    /\ UNCHANGED <<args, ret, step, hypotheses, tool_results, last_tool, last_gain,
                   trace_steps>>

\* The loop head counting an iteration twice.
loop_head_counts_twice ==
    /\ pc = "while"
    /\ IF step < 5
       THEN /\ step' = step + 2
            /\ pc' = "think"
            /\ UNCHANGED exit_via
       ELSE /\ pc' = "final"
            /\ exit_via' = "while"
            /\ UNCHANGED step
    /\ UNCHANGED <<args, ret, hypotheses, tool_results, last_tool, last_gain, trace_steps>>

loop_head ==
    /\ pc = "while"
    /\ IF step < 5
       THEN /\ step' = step + 1
            /\ pc' = "think"
            /\ UNCHANGED exit_via
       ELSE /\ pc' = "final"
            /\ exit_via' = "while"
            /\ UNCHANGED step
    /\ UNCHANGED <<args, ret, hypotheses, tool_results, last_tool, last_gain, trace_steps>>

\* Lines 113-130: last_tool and last_gain, the trace record, and back to
\* the while test.
record_step(selected_tool, tool_result, results, updated) ==
    /\ tool_results' = results
    /\ hypotheses' = updated
    /\ last_tool' = selected_tool
    /\ last_gain' = IF tool_result.ok /\ Len(results) >= 2
                    THEN RSub(MaxBelief(updated), PreviousMax(updated))
                    ELSE last_gain
    /\ trace_steps' = Append(trace_steps,
                             [step |-> step, selected_tool |-> selected_tool,
                              tool_result |-> tool_result, hypotheses |-> updated])
    /\ pc' = "while"
    /\ UNCHANGED <<ret, exit_via>>

\* Lines 94-111: the result is appended whether it failed or not; beliefs
\* are updated from a successful result that has features.
apply_result(selected_tool, tool_result) ==
    \E updated \in
        {IF tool_result.ok /\ HasFeatures(tool_result)
         THEN update_beliefs_from_features(hypotheses, selected_tool,
                                           tool_result.features[1]).hypotheses
         ELSE hypotheses} :
        record_step(selected_tool, tool_result, Append(tool_results, tool_result),
                    updated)

\* Lines 85-92: an exception leaving execute_tool leaves run_agent_loop too.
after_execute(selected_tool, executed) ==
    IF IsRaise(executed)
    THEN /\ pc' = "raised"
         /\ ret' = executed
         /\ UNCHANGED <<hypotheses, tool_results, last_tool, last_gain, trace_steps,
                        exit_via>>
    ELSE apply_result(selected_tool, executed.val)

\* Lines 72-90: the value select_next_tool returned is tested and, unopened,
\* handed to execute_tool.
act(selected_tool) ==
    IF NoToolSelected(selected_tool)
    THEN /\ pc' = "final"
         /\ exit_via' = "no_tool"
         /\ UNCHANGED <<ret, hypotheses, tool_results, last_tool, last_gain, trace_steps>>
    ELSE \E executed \in {execute_tool(selected_tool, args.mock, args.mode,
                                        args.break_competitor)} :
            after_execute(selected_tool, executed)

\* Lines 66-130: the termination check, then selection, execution, belief
\* update, last_tool/last_gain and the trace record of this iteration.
loop_body ==
    /\ pc = "think"
    /\ IF TerminationTest(should_terminate(Context))
       THEN /\ pc' = "final"
            /\ exit_via' = "terminate"
            /\ UNCHANGED <<ret, hypotheses, tool_results, last_tool, last_gain, trace_steps>>
       ELSE \E selected_tool \in {PTuple(select_next_tool(Context))} :
               act(selected_tool)
    /\ UNCHANGED <<args, step>>

\* Lines 132-155: the final strategy, the trace and the returned dict.
finish ==
    /\ pc = "final"
    /\ LET final_strategy == decide_actions(Context)
       IN  ret' = Return([success |-> TRUE, strategy |-> final_strategy,
                          total_steps |-> step])
    /\ pc' = "done"
    /\ UNCHANGED <<args, step, hypotheses, tool_results, last_tool, last_gain,
                   trace_steps, exit_via>>

Next ==
    \/ loop_head
    \/ loop_body
    \/ finish

\* The call runs on one thread with nothing to wait for: it keeps stepping.
Spec == Init /\ [][Next]_vars /\ WF_vars(Next)

---------------------------------------------------------------------------
(* Direct calls of the module's functions, as a test or another caller     *)
(* makes them: the arguments are drawn from bounded sets at the start and  *)
(* one action per function applies it.                                     *)

MaxScores == 2

ScorePool == {Q(-3, 1), Q(-1, 1), Q(-3, 10), Zero, Q(1, 3), One, Q(3, 1)}

BeliefPool == {Q(-1, 2), Zero, Q(3, 10), Q(1, 2), One, Q(3, 2)}

AlphaPool == {ALPHA, Q(1, 2), One}

RECURSIVE SeqsUpTo(_, _)
SeqsUpTo(S, n) ==
    IF n = 0 THEN {<<>>}
    ELSE LET shorter == SeqsUpTo(S, n - 1)
         IN  shorter \cup {Append(s, x) : s \in shorter, x \in S}

ScoreLists == SeqsUpTo(ScorePool, MaxScores)

UpdateBeliefCalls ==
    {[fn |-> "update_belief", belief |-> b, alpha |-> a, scores |-> s] :
        b \in BeliefPool, a \in AlphaPool, s \in ScoreLists}

RuleTypes == {"ratio", "count", "threshold", "gap", "categorical", "trend"}

Directions == {"lower_better", "higher_better", "lower_worse", "higher_worse", ""}

ThrPool == {Q(-1, 1), Q(-1, 20), Zero, Q(3, 5), Q(5, 1)}

BadValueLists == {<<"high", "critical">>, <<"5">>, <<"0.4", "high">>}

RulePool ==
    {[type |-> t, feature |-> "f", thr |-> x, direction |-> d] :
        t \in RuleTypes, x \in ThrPool, d \in Directions}
    \cup {[type |-> t, feature |-> "f", direction |-> d] :
        t \in RuleTypes \ {"categorical"}, d \in {"lower_better", "lower_worse"}}
    \cup {[type |-> "categorical", feature |-> "f", bad_values |-> bv] :
        bv \in BadValueLists}
    \cup {[type |-> "categorical", feature |-> "f"]}

NumberPool ==
    {VInt(-5), VInt(0), VInt(5), VInt(12), VFloat(-1, 5), VFloat(2, 5),
     VFloat(3, 5), VFloat(5, 1), VFloat(-21, 20)}

StringPool == {VStr("high"), VStr("low"), VStr("5")}

\* Numeric rules score numbers; a categorical rule scores any value.
ScoreFeatureCalls ==
    {[fn |-> "score_feature", value |-> v, rule |-> r] :
        v \in NumberPool, r \in RulePool}
    \cup {[fn |-> "score_feature", value |-> v, rule |-> r] :
        v \in StringPool, r \in {x \in RulePool : x.type = "categorical"}}

\* Contexts for calls that read an AgentContext.
MaxStep == 6

ContextBeliefPool == {Q(30, 100), Q(41, 100), Q(42, 100), Q(80, 100)}

HypothesisLists ==
    {[i \in 1..Len(HYPOTHESIS_DEFINITIONS) |->
         [id |-> HYPOTHESIS_DEFINITIONS[i].id, name |-> HYPOTHESIS_DEFINITIONS[i].name,
          belief |-> b[i], previous_belief |-> None]] :
        b \in [1..Len(HYPOTHESIS_DEFINITIONS) -> ContextBeliefPool]}

NoContext ==
    /\ step = 0
    /\ hypotheses = <<>>
    /\ tool_results = <<>>
    /\ last_tool = PNone
    /\ last_gain = Zero
    /\ trace_steps = <<>>
    /\ exit_via = "none"

CallInit ==
    /\ pc = "call"
    /\ ret = None
    /\ \/ args \in UpdateBeliefCalls /\ NoContext
       \/ args \in ScoreFeatureCalls /\ NoContext
       \/ /\ args = [fn |-> "should_terminate"]
          /\ step \in 0..MaxStep
          /\ hypotheses \in HypothesisLists
          /\ tool_results = <<>>
          /\ last_tool = PNone
          /\ last_gain = Zero
          /\ trace_steps = <<>>
          /\ exit_via = "none"

context_vars == <<step, hypotheses, tool_results, last_tool, last_gain,
                  trace_steps, exit_via>>

call_update_belief ==
    /\ pc = "call"
    /\ args.fn = "update_belief"
    /\ ret' = Return(update_belief(args.belief, args.alpha, args.scores))
    /\ pc' = "returned"
    /\ UNCHANGED <<args, context_vars>>

call_score_feature ==
    /\ pc = "call"
    /\ args.fn = "score_feature"
    /\ ret' = score_feature(args.value, args.rule)
    /\ pc' = "returned"
    /\ UNCHANGED <<args, context_vars>>

call_should_terminate ==
    /\ pc = "call"
    /\ args.fn = "should_terminate"
    /\ ret' = Return(should_terminate(Context))
    /\ pc' = "returned"
    /\ UNCHANGED <<args, context_vars>>

CallNext ==
    \/ call_update_belief
    \/ call_score_feature
    \/ call_should_terminate

CallSpec == CallInit /\ [][CallNext]_vars

Returned(fn) == pc = "returned" /\ args.fn = fn

---------------------------------------------------------------------------
(* Direct calls of select_next_tool on enumerated contexts.                *)

\* What tool_results holds for each probe: nothing, a success or a failure.
ResultStatus == {"none", "ok", "failed"}

\* tool_results with one result per probe that has run, in table order.
ResultsOf(st) ==
    LET Ran(t)  == st[t] # "none"
        present == SelectSeq(ToolSeq, Ran)
    IN  [i \in 1..Len(present) |->
            [tool_name |-> present[i], ok |-> st[present[i]] = "ok",
             features |-> None,
             error |-> IF st[present[i]] = "ok" THEN None ELSE <<"error">>]]

ToolResultLists == {ResultsOf(st) : st \in [ToolNames -> ResultStatus]}

SuccessLists == {ResultsOf(st) : st \in [ToolNames -> {"none", "ok"}]}

RankBeliefPool == {Q(30, 100), Q(35, 100), Q(50, 100)}

GuardBeliefPool == {Q(30, 100), Q(35, 100)}

HypothesesOver(pool) ==
    {[i \in 1..Len(HYPOTHESIS_DEFINITIONS) |->
         [id |-> HYPOTHESIS_DEFINITIONS[i].id, name |-> HYPOTHESIS_DEFINITIONS[i].name,
          belief |-> b[i], previous_belief |-> None]] :
        b \in [1..Len(HYPOTHESIS_DEFINITIONS) -> pool]}

GainPool == {Q(3, 100), Q(5, 100)}

\* Either every ranking of three belief levels with no low-gain history, or
\* two belief levels with every history of results, last_tool and last_gain.
SelectInit ==
    /\ pc = "call"
    /\ ret = None
    /\ args = [fn |-> "select_next_tool"]
    /\ step = 1
    /\ trace_steps = <<>>
    /\ exit_via = "none"
    /\ \/ /\ hypotheses \in HypothesesOver(RankBeliefPool)
          /\ tool_results \in SuccessLists
          /\ last_tool = PNone
          /\ last_gain = Zero
       \/ /\ hypotheses \in HypothesesOver(GuardBeliefPool)
          /\ tool_results \in ToolResultLists
          /\ \/ last_tool = PNone /\ last_gain = Zero
             \/ \E t \in ToolNames, g \in GainPool :
                    last_tool = PStr(t) /\ last_gain = g

call_select_next_tool ==
    /\ pc = "call"
    /\ args.fn = "select_next_tool"
    /\ ret' = Return(select_next_tool(Context))
    /\ pc' = "returned"
    /\ UNCHANGED <<args, context_vars>>

SelectNext == call_select_next_tool

SelectSpec == SelectInit /\ [][SelectNext]_vars

---------------------------------------------------------------------------
(* Direct calls of execute_tool and of the other functions of policy.py.   *)

\* Every file of the scenario directory with the same defect.
DefectiveFiles(defect) ==
    [ads_keywords  |-> Defective(KeywordFeatures, defect),
     ads_campaign  |-> Defective(CampaignFeatures, defect),
     listing_audit |-> Defective(ListingFeatures, defect),
     competitor    |-> Defective(CompetitorFeatures, defect),
     inventory     |-> Defective(InventoryFeatures, defect)]

ExecMockPool == MockPool \cup {DefectiveFiles("malformed"), DefectiveFiles("incomplete")}

\* The names execute_tool is called with: the four probes and an unknown one.
ExecNames == ToolNames \cup {"Unknown"}

\* execute_tool(tool_name, scenario_path, mode, break_competitor).
ExecuteToolCall ==
    /\ \E t \in ExecNames, m \in ExecMockPool, md \in {"keyword", "campaign"},
          b \in BOOLEAN :
           args = [fn |-> "execute_tool", tool_name |-> PStr(t), mock |-> m,
                   mode |-> md, break_competitor |-> b]
    /\ NoContext

\* A listing feature map without the review count.
PartialListingFeatures == [main_image_score |-> VFloat(1, 2), rating |-> VFloat(7, 2)]

\* The feature dictionaries the probes produce, a partial one and an empty one.
FeaturePool ==
    {KeywordFeatures, CampaignFeatures, ListingFeatures, CompetitorFeatures,
     InventoryFeatures, PartialListingFeatures, <<>>}

\* What the named probe reports from a complete scenario directory.
FeaturesOf(tool_name) ==
    CASE tool_name = "AdsMetrics"   -> KeywordFeatures
      [] tool_name = "ListingAudit" -> ListingFeatures
      [] tool_name = "Competitor"   -> CompetitorFeatures
      [] tool_name = "Inventory"    -> InventoryFeatures

\* Hypothesis lists as initialize_hypotheses builds them, and as they are
\* after one probe's features have been applied.
UpdatedOnce ==
    {update_beliefs_from_features(initialize_hypotheses(g), PStr(t),
                                  FeaturesOf(t)).hypotheses :
        g \in Goals, t \in ToolNames}

UpdateHypothesesPool == {initialize_hypotheses(g) : g \in Goals} \cup UpdatedOnce

\* update_beliefs_from_features(hypotheses, tool_name, features).
UpdateBeliefsCall ==
    /\ \E t \in ExecNames, f \in FeaturePool :
           args = [fn |-> "update_beliefs_from_features", tool_name |-> PStr(t),
                   features |-> f]
    /\ hypotheses \in UpdateHypothesesPool
    /\ step = 0 /\ tool_results = <<>> /\ last_tool = PNone /\ last_gain = Zero
    /\ trace_steps = <<>> /\ exit_via = "none"

\* decide_actions(context), with contexts that agree on the hypotheses and
\* differ in everything else.
DecideActionsCall ==
    /\ args = [fn |-> "decide_actions"]
    /\ hypotheses \in HypothesesOver(RankBeliefPool)
    /\ \/ step = 1 /\ tool_results = <<>> /\ last_tool = PNone /\ last_gain = Zero
       \/ /\ step = 5
          /\ tool_results = ResultsOf([t \in ToolNames |->
                                          IF t = "Competitor" THEN "failed" ELSE "ok"])
          /\ last_tool = PStr("Inventory")
          /\ last_gain \in GainPool
    /\ trace_steps = <<>> /\ exit_via = "none"

\* initialize_hypotheses(goal).
InitializeHypothesesCall ==
    /\ \E g \in Goals : args = [fn |-> "initialize_hypotheses", goal |-> g]
    /\ NoContext

PolicyInit ==
    /\ pc = "call"
    /\ ret = None
    /\ \/ ExecuteToolCall
       \/ UpdateBeliefsCall
       \/ DecideActionsCall
       \/ InitializeHypothesesCall

call_execute_tool ==
    /\ pc = "call"
    /\ args.fn = "execute_tool"
    /\ ret' = execute_tool(args.tool_name, args.mock, args.mode, args.break_competitor)
    /\ pc' = "returned"
    /\ UNCHANGED <<args, context_vars>>

\* The list is mutated in place; the update records are returned.
call_update_beliefs_from_features ==
    /\ pc = "call"
    /\ args.fn = "update_beliefs_from_features"
    /\ \E updated \in {update_beliefs_from_features(hypotheses, args.tool_name,
                                                    args.features)} :
           /\ hypotheses' = updated.hypotheses
           /\ ret' = Return(updated.updates)
    /\ pc' = "returned"
    /\ UNCHANGED <<args, step, tool_results, last_tool, last_gain, trace_steps, exit_via>>

call_decide_actions ==
    /\ pc = "call"
    /\ args.fn = "decide_actions"
    /\ ret' = Return(decide_actions(Context))
    /\ pc' = "returned"
    /\ UNCHANGED <<args, context_vars>>

call_initialize_hypotheses ==
    /\ pc = "call"
    /\ args.fn = "initialize_hypotheses"
    /\ ret' = Return(initialize_hypotheses(args.goal))
    /\ pc' = "returned"
    /\ UNCHANGED <<args, context_vars>>

PolicyNext ==
    \/ call_execute_tool
    \/ call_update_beliefs_from_features
    \/ call_decide_actions
    \/ call_initialize_hypotheses

PolicySpec == PolicyInit /\ [][PolicyNext]_vars

---------------------------------------------------------------------------
(* Properties of update_belief (checked under CallSpec).                   *)

InUnit(x) == RLe(Zero, x) /\ RLe(x, One)

AlphaInRange(a) == RLt(Zero, a) /\ RLe(a, One)

Clamp(x) == IF RLt(x, Zero) THEN Zero ELSE IF RLt(One, x) THEN One ELSE x

Mean(s) == RDiv(RSum(s), Q(Len(s), 1))

\* C5: for b in [0,1], alpha in (0,1] and any score list, the new belief
\* returned by update_belief lies in [0,1].
C5_NewBeliefInUnitInterval ==
    (Returned("update_belief") /\ InUnit(args.belief) /\ AlphaInRange(args.alpha))
        => InUnit(ret.val[1])

\* The clamp acted: the unclamped move would have left [0,1].
C5_Witness ==
    /\ Returned("update_belief")
    /\ InUnit(args.belief) /\ AlphaInRange(args.alpha)
    /\ args.scores # <<>>
    /\ ~InUnit(RAdd(args.belief,
                    RMul(RMul(args.alpha, Mean(args.scores)), RSub(One, args.belief))))
    /\ RLt(Zero, Mean(args.scores))
    /\ ret.val[1] = One

\* The reference updater of the specification, in closed form.
RefNewBelief(b, alpha, scores) ==
    IF Len(scores) = 0 THEN b
    ELSE LET avg   == Mean(scores)
             room  == IF RLt(Zero, avg) THEN RSub(One, b) ELSE b
         IN  Clamp(RAdd(b, RMul(alpha, RMul(avg, room))))

\* C6: update_belief equals the reference updater: (b, 0) for an empty list,
\* else clamp(b + alpha*avg*(1-b)) for avg > 0 and clamp(b + alpha*avg*b) for
\* avg <= 0, with delta = new belief - b.
C6_EqualsReferenceUpdater ==
    Returned("update_belief") =>
        /\ ret.val[1] = RefNewBelief(args.belief, args.alpha, args.scores)
        /\ ret.val[2] = (IF Len(args.scores) = 0 THEN Zero
                         ELSE RSub(ret.val[1], args.belief))
        /\ (Len(args.scores) = 0 => ret.val = <<args.belief, Zero>>)

\* A negative average moved a belief strictly inside (0,1) downwards.
C6_Witness ==
    /\ Returned("update_belief")
    /\ Len(args.scores) = MaxScores
    /\ RLt(Mean(args.scores), Zero)
    /\ args.belief = Q(3, 10)
    /\ RLt(ret.val[2], Zero) /\ RLt(Zero, ret.val[1])

\* C7: for fixed b in [0,1] and alpha in (0,1], a strictly larger average
\* score never yields a smaller new belief (also across avg = 0).
C7_MonotoneInAverage ==
    (Returned("update_belief") /\ InUnit(args.belief) /\ AlphaInRange(args.alpha)
        /\ args.scores # <<>>)
    => \A other \in ScoreLists \ {<<>>} :
           RLt(Mean(args.scores), Mean(other))
           => RLe(ret.val[1], update_belief(args.belief, args.alpha, other)[1])

\* A pair of averages that straddles zero and moves the belief both ways.
C7_Witness ==
    /\ Returned("update_belief")
    /\ args.belief = Q(1, 2) /\ args.alpha = ALPHA
    /\ args.scores # <<>>
    /\ RLt(Mean(args.scores), Zero)
    /\ RLt(ret.val[1], args.belief)
    /\ \E other \in ScoreLists \ {<<>>} :
           /\ RLt(Zero, Mean(other))
           /\ RLt(args.belief, update_belief(args.belief, args.alpha, other)[1])

\* C8: belief 0 is absorbing under a negative score and belief 1 under a
\* positive score (the result is (b, 0)); in the opposite direction the
\* boundary belief changes.
C8_AbsorbingBoundaries ==
    (Returned("update_belief") /\ Len(args.scores) = 1 /\ AlphaInRange(args.alpha))
    => LET s == args.scores[1]
       IN  /\ (args.belief = Zero /\ RLt(s, Zero)) => ret.val = <<Zero, Zero>>
           /\ (args.belief = One /\ RLt(Zero, s)) => ret.val = <<One, Zero>>
           /\ (args.belief = Zero /\ RLt(Zero, s))
                  => (RLt(Zero, ret.val[1]) /\ RLt(Zero, ret.val[2]))
           /\ (args.belief = One /\ RLt(s, Zero))
                  => (RLt(ret.val[1], One) /\ RLt(ret.val[2], Zero))

\* Belief 0 met a negative score within [-1,0) and stayed at 0.
C8_Witness ==
    /\ Returned("update_belief")
    /\ args.belief = Zero /\ args.alpha = ALPHA
    /\ args.scores = <<Q(-3, 10)>>
    /\ ret.val = <<Zero, Zero>>

---------------------------------------------------------------------------
(* Properties of score_feature (checked under CallSpec).                   *)

Thr(rule) == Get(rule, "thr", Zero)

\* C9 (as claimed): score_feature returns a score in [-1,1] for every value
\* and every rule, negative thresholds included.  Stated here for rules with
\* a non-zero threshold, where no division by zero can occur.
C9_ScoreInRange ==
    (Returned("score_feature") /\ Thr(args.rule) # Zero)
        => (IsReturn(ret) /\ RLe(Q(-1, 1), ret.val) /\ RLe(ret.val, One))

\* The reference scoring table of the specification.
RefScore(value, rule) ==
    LET t   == Get(rule, "type", "")
        d   == Get(rule, "direction", "")
        thr == Thr(rule)
        v   == value.q
        bad == {Get(rule, "bad_values", <<>>)[i] :
                    i \in 1..Len(Get(rule, "bad_values", <<>>))}
    IN  IF t = "categorical" THEN (IF PyStr(value) \in bad THEN One ELSE Q(-1, 5))
        ELSE IF <<t, d>> = <<"ratio", "lower_better">>
             THEN (IF RLt(v, thr) THEN RMin(One, RDiv(RSub(thr, v), thr)) ELSE Q(-3, 10))
        ELSE IF <<t, d>> = <<"count", "higher_better">>
             THEN (IF ~RLt(v, thr) THEN RMin(One, RDiv(RSub(v, thr), thr)) ELSE Q(-1, 5))
        ELSE IF <<t, d>> = <<"threshold", "higher_worse">>
             THEN (IF RLt(thr, v) THEN One ELSE Q(-1, 5))
        ELSE IF <<t, d>> = <<"threshold", "lower_worse">>
             THEN (IF RLt(v, thr) THEN RMin(One, RDiv(RSub(thr, v), thr)) ELSE Q(-1, 5))
        ELSE IF <<t, d>> = <<"gap", "lower_worse">>
             THEN (IF RLt(v, thr) THEN RMin(One, RDiv(RAbs(RSub(v, thr)), RAbs(thr)))
                   ELSE Q(-1, 10))
        ELSE Zero

\* C10: for every value and every rule with a non-zero threshold (and every
\* categorical rule, which reads no threshold) score_feature returns the
\* score of the reference table; unlisted type/direction pairs give 0.
C10_EqualsReferenceTable ==
    (Returned("score_feature")
        /\ (Thr(args.rule) # Zero \/ args.rule.type = "categorical"))
    => ret = Return(RefScore(args.value, args.rule))

\* A count rule met exactly at its threshold scores 0, not -0.2.
C10_Witness ==
    /\ Returned("score_feature")
    /\ args.rule.type = "count" /\ args.rule.direction = "higher_better"
    /\ Thr(args.rule) = Q(5, 1) /\ args.value.q = Q(5, 1)
    /\ ret = Return(Zero)

---------------------------------------------------------------------------
(* Properties of should_terminate (checked under CallSpec).                *)

Confident == \E i \in 1..Len(hypotheses) : RLe(Q(42, 100), hypotheses[i].belief)

\* C3: for every context with step < 3, whatever the beliefs are,
\* should_terminate returns (False, "").
C3_FloorBelowStepThree ==
    (Returned("should_terminate") /\ step < 3) => ret.val = <<FALSE, <<>>>>

\* A context below the floor whose beliefs are all above the threshold.
C3_Witness ==
    /\ Returned("should_terminate")
    /\ step = 2
    /\ \A i \in 1..Len(hypotheses) : hypotheses[i].belief = Q(80, 100)
    /\ ret.val[1] = FALSE

\* C4: for step >= 3 the rules apply in order: maximum belief >= 0.42 gives
\* true with the confidence reason (also at step >= 5); else step >= 5 gives
\* true with the step-limit reason; else false.  0.42 is the only threshold.
C4_RulesInOrder ==
    (Returned("should_terminate") /\ step >= 3) =>
        IF Confident
        THEN ret.val[1] = TRUE /\ ret.val[2] # <<>> /\ ret.val[2][1] = "confidence"
        ELSE IF step >= 5
        THEN ret.val[1] = TRUE /\ ret.val[2] # <<>> /\ ret.val[2][1] = "step_limit"
        ELSE ret.val = <<FALSE, <<>>>>

\* At the step cap with a belief of exactly 0.42 and none higher: the
\* confidence reason is given, not the step-limit reason.
C4_Witness ==
    /\ Returned("should_terminate")
    /\ step = 5
    /\ hypotheses[3].belief = Q(42, 100)
    /\ \A i \in 1..Len(hypotheses) : RLe(hypotheses[i].belief, Q(42, 100))
    /\ ret.val[1] = TRUE /\ ret.val[2][1] = "confidence"

---------------------------------------------------------------------------
(* Properties of run_agent_loop (checked under Spec).                      *)

C2_NoTerminationBeforeStepThree ==
    exit_via = "terminate" => step >= 3

---------------------------------------------------------------------------
(* Properties of select_next_tool (checked under SelectSpec).              *)

\* The probe the call returned, where it returned one.
ReturnedProbe(t) == Returned("select_next_tool") /\ PyEq(ret.val[1], PStr(t))

ResultNames == {tool_results[i].tool_name : i \in 1..Len(tool_results)}

SomeSuccess == \E i \in 1..Len(tool_results) : tool_results[i].ok

\* The low-gain guard as the specification words it, for probe t.
LowGainRepeat(t) ==
    PyEq(last_tool, PStr(t)) /\ RLt(last_gain, Q(5, 100)) /\ SomeSuccess

Eligible(t) == t \notin ResultNames /\ ~LowGainRepeat(t)

\* Probe t is keyed to the hypothesis at index i of the registry.
KeyedTo(t, i) ==
    \E k \in 1..Len(RULES) :
        /\ RULES[k].tool = t
        /\ \E j \in 1..Len(RULES[k].table) : RULES[k].table[j].id = hypotheses[i].id

TableIndex(t) == CHOOSE k \in 1..Len(RULES) : RULES[k].tool = t

\* Hypothesis j is scanned before hypothesis i: larger belief, or equal
\* belief and earlier in the registry.
RankedBefore(j, i) ==
    \/ RLt(hypotheses[i].belief, hypotheses[j].belief)
    \/ (hypotheses[j].belief = hypotheses[i].belief /\ j < i)

\* C11: select_next_tool never returns a probe whose name already occurs in
\* tool_results, whether that result succeeded or failed.
C11_NeverReturnsRecordedProbe ==
    \A t \in ToolNames : ReturnedProbe(t) => t \notin ResultNames

\* A failed probe was next in rank and another probe was returned.
C11_Witness ==
    /\ Returned("select_next_tool")
    /\ \E i \in 1..Len(tool_results) :
           /\ ~tool_results[i].ok
           /\ tool_results[i].tool_name = "AdsMetrics"
    /\ Len(tool_results) = 1
    /\ hypotheses[1].belief = Q(35, 100)
    /\ PyEq(last_tool, PNone)
    /\ ret.val[1].py = "str" /\ ret.val[1].v # "AdsMetrics"

\* C12: with last_tool = P, last_gain < 0.05 and at least one successful
\* result, select_next_tool does not return P; and if another probe that is
\* neither executed nor failed exists, such a probe is returned.
C12_LowGainProbeSkipped ==
    \A P \in ToolNames :
        (Returned("select_next_tool") /\ LowGainRepeat(P))
        => /\ ~PyEq(ret.val[1], PStr(P))
           /\ (\E t \in ToolNames \ {P} : t \notin ResultNames)
                  => \E t \in ToolNames \ {P} :
                         t \notin ResultNames /\ PyEq(ret.val[1], PStr(t))

\* The guard acted: P had no result and headed the ranking, yet another
\* probe was returned.
C12_Witness ==
    /\ Returned("select_next_tool")
    /\ LowGainRepeat("AdsMetrics")
    /\ "AdsMetrics" \notin ResultNames
    /\ \A i \in 1..Len(hypotheses) : RLe(hypotheses[i].belief, hypotheses[1].belief)
    /\ ret.val[1].py = "str" /\ ret.val[1].v # "AdsMetrics"

\* C13: the probe returned is the first eligible probe in rank-then-table
\* order: it is keyed to a hypothesis before which no hypothesis has an
\* eligible probe, it is the first eligible probe of that hypothesis in table
\* order, and a probe is returned whenever some hypothesis has an eligible one.
C13_FirstEligibleInRankOrder ==
    Returned("select_next_tool") =>
        /\ \A t \in ToolNames :
               PyEq(ret.val[1], PStr(t)) =>
                   /\ Eligible(t)
                   /\ \E i \in 1..Len(hypotheses) :
                          /\ KeyedTo(t, i)
                          /\ \A j \in 1..Len(hypotheses), u \in ToolNames :
                                 (RankedBefore(j, i) /\ KeyedTo(u, j)) => ~Eligible(u)
                          /\ \A u \in ToolNames :
                                 (KeyedTo(u, i) /\ Eligible(u))
                                 => TableIndex(t) <= TableIndex(u)
        /\ (\E t \in ToolNames, i \in 1..Len(hypotheses) : KeyedTo(t, i) /\ Eligible(t))
               => ret.val[1].py = "str"

\* A tie at the top between H3 and H6 with nothing run: the probe of H3, the
\* earlier of the two in the registry, is returned.
C13_Witness ==
    /\ Returned("select_next_tool")
    /\ tool_results = <<>>
    /\ hypotheses[3].belief = Q(50, 100) /\ hypotheses[6].belief = Q(50, 100)
    /\ \A i \in {1, 2, 4, 5} : hypotheses[i].belief = Q(30, 100)
    /\ PyEq(ret.val[1], PStr("Competitor"))

\* C14 (as claimed): when no probe is eligible, select_next_tool yields no
\* probe and the loop's test of the returned value (`if not selected_tool`)
\* takes the break, so that no probe is executed and nothing is raised.
C14_NullEndsTheLoop ==
    (Returned("select_next_tool") /\ \A t \in ToolNames : ~Eligible(t))
    => /\ PyEq(ret.val[1], PNone)
       /\ NoToolSelected(PTuple(ret.val))

---------------------------------------------------------------------------
(* Properties of execute_tool (checked under PolicySpec).                  *)

\* The file the named probe reads.
FileRead(name, mock, mode) ==
    CASE name = "AdsMetrics"   -> (IF mode = "keyword" THEN mock.ads_keywords
                                   ELSE mock.ads_campaign)
      [] name = "ListingAudit" -> mock.listing_audit
      [] name = "Competitor"   -> mock.competitor
      [] name = "Inventory"    -> mock.inventory

\* The probe function of this call exists and returns normally.
ProbeSucceeds ==
    /\ args.tool_name.v \in ToolNames
    /\ Len(FileRead(args.tool_name.v, args.mock, args.mode)) = 1
    /\ ~(args.tool_name.v = "Competitor" /\ args.break_competitor)

\* C16: execute_tool never propagates an exception: for every probe name, an
\* unknown one included, and every error of the probe function it returns a
\* ToolResult, with ok = false, an error message and no features when the
\* probe raised, and with ok = true only when the probe returned normally.
C16_ExecuteToolNeverRaises ==
    Returned("execute_tool")
    => /\ IsReturn(ret)
       /\ ret.val.ok <=> ProbeSucceeds
       /\ ~ret.val.ok => (ret.val.error # None /\ ret.val.features = None)

\* An unknown name, and a probe that timed out, each gave a failed result.
C16_Witness ==
    /\ Returned("execute_tool")
    /\ \/ args.tool_name.v = "Unknown"
       \/ args.tool_name.v = "Competitor" /\ args.break_competitor
    /\ IsReturn(ret) /\ ~ret.val.ok /\ ret.val.error # None

---------------------------------------------------------------------------
(* Properties of update_beliefs_from_features (checked under PolicySpec).  *)

\* RULES has a table for probe t and that table has an entry for the id.
KeyedUnder(t, hyp_id) ==
    \E k \in 1..Len(RULES) :
        /\ RULES[k].tool = t
        /\ \E j \in 1..Len(RULES[k].table) : RULES[k].table[j].id = hyp_id

\* C17: update_beliefs_from_features for probe T changes only hypotheses
\* keyed under RULES[T]: belief and previous_belief of every hypothesis whose
\* id is not in RULES[T] are unchanged, and for a name not in RULES no
\* hypothesis changes at all.
C17_OnlyKeyedHypothesesChange ==
    [][args.fn = "update_beliefs_from_features"
       => /\ Len(hypotheses') = Len(hypotheses)
          /\ \A i \in 1..Len(hypotheses) :
                 ~KeyedUnder(args.tool_name.v, hypotheses[i].id)
                 => /\ hypotheses'[i].belief = hypotheses[i].belief
                    /\ hypotheses'[i].previous_belief = hypotheses[i].previous_belief]_vars

\* ListingAudit features moved H4 and left H1, never updated, as it was.
C17_Witness ==
    /\ Returned("update_beliefs_from_features")
    /\ args.tool_name.v = "ListingAudit"
    /\ hypotheses[4].previous_belief # None
    /\ hypotheses[4].belief # hypotheses[4].previous_belief
    /\ hypotheses[1].previous_belief = None
    /\ hypotheses[1].belief \in {Q(30, 100), Q(35, 100)}

---------------------------------------------------------------------------
(* Properties of the step counter of run_agent_loop (checked under Spec).  *)

\* C18: in every reachable state of run_agent_loop 0 <= context.step <= 5;
\* step starts at 0, increases by exactly 1 at the start of each loop
\* iteration and is changed nowhere else; the value reported as total_steps
\* equals context.step at loop exit.
C18_StepCounter ==
    /\ step = 0
    /\ [](step \in 0..5)
    /\ [][\/ step' = step
          \/ pc = "while" /\ pc' = "think" /\ step' = step + 1]_vars
    /\ [][(pc = "while" /\ pc' = "think") => step' = step + 1]_vars
    /\ [](pc = "done" => (IsReturn(ret) /\ ret.val.total_steps = step))

\* A finished run that entered the loop once and reports one step.
C18_Witness ==
    /\ pc = "done"
    /\ IsReturn(ret)
    /\ step = 1
    /\ ret.val.total_steps = 1

---------------------------------------------------------------------------
(* Properties of decide_actions and initialize_hypotheses (checked under   *)
(* PolicySpec).                                                            *)

\* hypotheses[i] has maximal belief and is the earliest such in the list.
EarliestMaximal(i) ==
    /\ \A j \in 1..Len(hypotheses) : RLe(hypotheses[j].belief, hypotheses[i].belief)
    /\ \A j \in 1..(i - 1) : RLt(hypotheses[j].belief, hypotheses[i].belief)

\* The static template of a hypothesis, cut to at most three entries.
TemplateCut(hyp_id) ==
    LET template == ActionTemplates(hyp_id)
    IN  [k \in 1..(IF Len(template) > 3 THEN 3 ELSE Len(template)) |-> template[k]]

\* C19: decide_actions builds the strategy from the top-belief hypothesis:
\* primary_hypothesis is the name of the earliest hypothesis of maximal belief,
\* confidence is that belief, actions is its static template cut to at most 3
\* entries (1 to 3 for every id), and the three depend on the hypotheses only,
\* not on tool_results, step, last_tool or last_gain.
C19_StrategyFromTopHypothesis ==
    Returned("decide_actions")
    => \E i \in 1..Len(hypotheses) :
           /\ EarliestMaximal(i)
           /\ ret.val.primary_hypothesis = hypotheses[i].name
           /\ ret.val.confidence = hypotheses[i].belief
           /\ ret.val.actions = TemplateCut(hypotheses[i].id)
           /\ Len(ret.val.actions) \in 1..3

\* H3 and H4 tie at the top in a context with results and a low last gain:
\* the strategy names H3 with its two actions.
C19_Witness ==
    /\ Returned("decide_actions")
    /\ hypotheses[3].belief = Q(50, 100)
    /\ hypotheses[4].belief = Q(50, 100)
    /\ \A i \in {1, 2} : hypotheses[i].belief = Q(35, 100)
    /\ step = 5
    /\ Len(tool_results) = 4
    /\ last_gain = Q(3, 100)
    /\ ret.val.primary_hypothesis = HYPOTHESIS_DEFINITIONS[3].name
    /\ ret.val.confidence = Q(50, 100)
    /\ Len(ret.val.actions) = 2

\* The goal gives this hypothesis the 0.05 bonus.
Favoured(goal, hyp_id) ==
    \/ goal = "increase_impressions" /\ hyp_id \in {"H1", "H2"}
    \/ goal = "reduce_acos" /\ hyp_id = "H5"
    \/ goal = "improve_conversion" /\ hyp_id = "H4"

\* C20: initialize_hypotheses returns, for every goal, exactly H1..H6 in
\* registry order, each with previous_belief null and belief 0.30, plus 0.05
\* only for H1 and H2 (increase_impressions), H5 (reduce_acos) and H4
\* (improve_conversion); H3 and H6 always start at 0.30 and every initial
\* belief is below the 0.42 confidence threshold.
C20_InitialBeliefs ==
    Returned("initialize_hypotheses")
    => /\ [i \in 1..Len(ret.val) |-> ret.val[i].id]
              = <<"H1", "H2", "H3", "H4", "H5", "H6">>
       /\ \A i \in 1..Len(ret.val) :
              /\ ret.val[i].previous_belief = None
              /\ ret.val[i].belief =
                     IF Favoured(args.goal, ret.val[i].id)
                     THEN RAdd(Q(30, 100), Q(5, 100)) ELSE Q(30, 100)
              /\ ret.val[i].id \in {"H3", "H6"} => ret.val[i].belief = Q(30, 100)
              /\ RLt(ret.val[i].belief, Q(42, 100))

\* reduce_acos: H5 starts at 0.35 and H6 at 0.30.
C20_Witness ==
    /\ Returned("initialize_hypotheses")
    /\ args.goal = "reduce_acos"
    /\ ret.val[5].belief = Q(35, 100)
    /\ ret.val[6].belief = Q(30, 100)
    /\ ret.val[5].previous_belief = None

---------------------------------------------------------------------------
(* Properties of whole runs of run_agent_loop (checked under Spec).        *)

\* The hypothesis initialize_hypotheses ranks first for the goal.
InitialTop(goal) ==
    CASE goal = "increase_impressions" -> HYPOTHESIS_DEFINITIONS[1].name
      [] goal = "reduce_acos"          -> HYPOTHESIS_DEFINITIONS[5].name
      [] goal = "improve_conversion"   -> HYPOTHESIS_DEFINITIONS[4].name

\* C21: because run_agent_loop tests the pair returned by should_terminate,
\* every run leaves the loop in its first iteration: no probe is selected or
\* executed, tool_results and the trace's step list stay empty, no belief is
\* ever updated, total_steps = 1 and the final strategy is the initial top
\* hypothesis with confidence 0.35.
C21_LeavesLoopInFirstIteration ==
    /\ [](/\ tool_results = <<>>
          /\ trace_steps = <<>>
          /\ PyEq(last_tool, PNone)
          /\ step <= 1
          /\ \A i \in 1..Len(hypotheses) :
                 /\ hypotheses[i].previous_belief = None
                 /\ hypotheses[i].belief \in {Q(30, 100), Q(35, 100)})
    /\ [](pc = "done"
          => /\ exit_via = "terminate"
             /\ IsReturn(ret)
             /\ ret.val.total_steps = 1
             /\ ret.val.strategy.primary_hypothesis = InitialTop(args.goal)
             /\ ret.val.strategy.confidence = Q(35, 100))
    /\ <>(pc = "done")

\* A run with every mock file present, which had probes to execute, is over
\* after one iteration with nothing executed.
C21_Witness ==
    /\ pc = "done"
    /\ args.mock.ads_keywords # Missing /\ args.mock.listing_audit # Missing
    /\ args.mock.competitor # Missing /\ args.mock.inventory # Missing
    /\ ~args.break_competitor
    /\ exit_via = "terminate"
    /\ step = 1
    /\ tool_results = <<>>
    /\ IsReturn(ret) /\ ret.val.total_steps = 1

---------------------------------------------------------------------------
(* Properties of previous_belief (checked under PolicySpec).               *)

\* Some rule of the hypothesis under probe t has its feature in the map, so
\* that the call applies at least one update to the hypothesis.
RuleApplies(t, hyp_id, features) ==
    \E k \in 1..Len(RULES) :
        /\ RULES[k].tool = t
        /\ \E j \in 1..Len(RULES[k].table) :
               /\ RULES[k].table[j].id = hyp_id
               /\ \E r \in 1..Len(RULES[k].table[j].rules) :
                      RULES[k].table[j].rules[r].feature \in DOMAIN features

\* C24 (as claimed): after a call of update_beliefs_from_features each
\* hypothesis the call updated has, as previous_belief, the belief it had
\* immediately before the call, and the previous_belief of every other
\* hypothesis is as it was (null if it was never updated).
C24_PreviousIsBeforeLatestUpdate ==
    [][args.fn = "update_beliefs_from_features"
       => \A i \in 1..Len(hypotheses) :
              hypotheses'[i].previous_belief =
                  IF RuleApplies(args.tool_name.v, hypotheses[i].id, args.features)
                  THEN hypotheses[i].belief
                  ELSE hypotheses[i].previous_belief]_vars

\* C24 (amended): previous_belief is written once, at the first call whose
\* probe has the hypothesis in its rule table, with the belief the hypothesis
\* has at that moment; every later call leaves it as it is, and a hypothesis
\* no such call has met keeps null.
C24_PreviousIsBeforeFirstUpdate ==
    [][args.fn = "update_beliefs_from_features"
       => \A i \in 1..Len(hypotheses) :
              hypotheses'[i].previous_belief =
                  IF /\ KeyedUnder(args.tool_name.v, hypotheses[i].id)
                     /\ hypotheses[i].previous_belief = None
                  THEN hypotheses[i].belief
                  ELSE hypotheses[i].previous_belief]_vars

\* ListingAudit features applied twice: H4 still carries its initial belief
\* as previous_belief, not the belief it had before the second call.
C24_Witness ==
    /\ Returned("update_beliefs_from_features")
    /\ args.tool_name.v = "ListingAudit"
    /\ \E g \in Goals :
           \E once \in {update_beliefs_from_features(
                            initialize_hypotheses(g), PStr("ListingAudit"),
                            ListingFeatures).hypotheses} :
               /\ hypotheses = update_beliefs_from_features(
                                   once, PStr("ListingAudit"), ListingFeatures).hypotheses
               /\ hypotheses[4].previous_belief = initialize_hypotheses(g)[4].belief
               /\ hypotheses[4].previous_belief # once[4].belief

---------------------------------------------------------------------------
(* The low-gain guard in contexts run_agent_loop can build (checked under  *)
(* SelectSpec).                                                            *)

\* last_tool is null or names a probe with a result in tool_results.
LastToolRecorded ==
    \/ PyEq(last_tool, PNone)
    \/ \E t \in ResultNames : PyEq(last_tool, PStr(t))

Unrecorded(t) == t \notin ResultNames

\* C25: where last_tool is null or names a probe that has a result in
\* tool_results, the low-gain guard suppresses nothing: the probe returned is
\* the first probe without a result in rank-then-table order, and so the same
\* for every value of last_gain.
C25_GuardNeverBites ==
    (Returned("select_next_tool") /\ LastToolRecorded)
    => /\ \A t \in ToolNames :
              PyEq(ret.val[1], PStr(t)) =>
                  /\ Unrecorded(t)
                  /\ \E i \in 1..Len(hypotheses) :
                         /\ KeyedTo(t, i)
                         /\ \A j \in 1..Len(hypotheses), u \in ToolNames :
                                (RankedBefore(j, i) /\ KeyedTo(u, j)) => ~Unrecorded(u)
       /\ (\E t \in ToolNames : Unrecorded(t)) => ret.val[1].py = "str"

\* AdsMetrics ran last and succeeded, the gain was low, and the probe of the
\* top-ranked hypothesis without a result is returned all the same.
C25_Witness ==
    /\ Returned("select_next_tool")
    /\ PyEq(last_tool, PStr("AdsMetrics"))
    /\ last_gain = Q(3, 100)
    /\ ResultNames = {"AdsMetrics"}
    /\ SomeSuccess
    /\ hypotheses[4].belief = Q(35, 100)
    /\ \A i \in {1, 2, 3, 5, 6} : hypotheses[i].belief = Q(30, 100)
    /\ PyEq(ret.val[1], PStr("ListingAudit"))

---------------------------------------------------------------------------
(* The rules of one hypothesis within a call of                            *)
(* update_beliefs_from_features (checked under PolicySpec).                *)

\* The rules RULES[t] lists for the hypothesis, in table order.
RulesOf(t, hyp_id) ==
    LET k == CHOOSE k \in 1..Len(RULES) : RULES[k].tool = t
        j == CHOOSE j \in 1..Len(RULES[k].table) : RULES[k].table[j].id = hyp_id
    IN  RULES[k].table[j].rules

\* Those of them whose feature is in the feature map.
PresentRules(t, hyp_id, features) ==
    LET Present(rule) == rule.feature \in DOMAIN features
    IN  SelectSeq(RulesOf(t, hyp_id), Present)

\* The update records of one hypothesis, in the order they were emitted.
RecordsOf(updates, name) ==
    LET Mine(record) == record.hypothesis = name
    IN  SelectSeq(updates, Mine)

\* C26: for a hypothesis with several rules under the probe,
\* update_beliefs_from_features applies one single-score update per rule whose
\* feature is present, in rule-table order, each starting from the belief the
\* previous one left, and emits one update record per applied rule; the final
\* belief is the composition of those updates.
C26_OneUpdatePerRuleInOrder ==
    [][(args.fn = "update_beliefs_from_features" /\ args.tool_name.v \in ToolNames)
       => \A i \in 1..Len(hypotheses) :
              KeyedUnder(args.tool_name.v, hypotheses[i].id)
              => LET present == PresentRules(args.tool_name.v, hypotheses[i].id,
                                             args.features)
                     records == RecordsOf(ret'.val, hypotheses[i].name)
                 IN  /\ Len(records) = Len(present)
                     /\ \A k \in 1..Len(records) :
                            /\ records[k].feature = present[k].feature
                            /\ records[k].old_belief =
                                   IF k = 1 THEN hypotheses[i].belief
                                   ELSE records[k - 1].new_belief
                            /\ records[k].score =
                                   score_feature(args.features[present[k].feature],
                                                 present[k]).val
                            /\ records[k].new_belief =
                                   update_belief(records[k].old_belief, ALPHA,
                                                 <<records[k].score>>)[1]
                     /\ hypotheses'[i].belief =
                            IF records = <<>> THEN hypotheses[i].belief
                            ELSE records[Len(records)].new_belief]_vars

\* H4 after ListingAudit with its three features: three records, and a belief
\* that is not the one a single update with the three scores would give.
C26_Witness ==
    /\ Returned("update_beliefs_from_features")
    /\ args.tool_name.v = "ListingAudit"
    /\ args.features = ListingFeatures
    /\ LET records == RecordsOf(ret.val, hypotheses[4].name)
       IN  /\ Len(records) = 3
           /\ records[2].old_belief = records[1].new_belief
           /\ hypotheses[4].belief = records[3].new_belief
           /\ hypotheses[4].belief #
                  update_belief(records[1].old_belief, ALPHA,
                                <<records[1].score, records[2].score,
                                  records[3].score>>)[1]

\* C28: a rule whose feature is absent from the feature map is skipped
\* silently: no error, no update record for it, and the belief is as the
\* other rules leave it; when none of the probe's rule features is present
\* every belief is unchanged and no record is emitted.
C28_AbsentFeatureSkipped ==
    [][(args.fn = "update_beliefs_from_features" /\ args.tool_name.v \in ToolNames)
       => /\ IsReturn(ret')
          /\ \A k \in 1..Len(ret'.val) : ret'.val[k].feature \in DOMAIN args.features
          /\ \A i \in 1..Len(hypotheses) :
                 ~RuleApplies(args.tool_name.v, hypotheses[i].id, args.features)
                 => /\ hypotheses'[i].belief = hypotheses[i].belief
                    /\ RecordsOf(ret'.val, hypotheses[i].name) = <<>>
          /\ (\A i \in 1..Len(hypotheses) :
                 ~RuleApplies(args.tool_name.v, hypotheses[i].id, args.features))
             => ret'.val = <<>>]_vars

\* AdsMetrics with campaign features changed no belief, and ListingAudit
\* without the review count gave H4 two records.
C28_Witness ==
    /\ Returned("update_beliefs_from_features")
    /\ \/ /\ args.tool_name.v = "AdsMetrics"
          /\ args.features = CampaignFeatures
          /\ ret.val = <<>>
          /\ hypotheses[1].belief \in {Q(30, 100), Q(35, 100)}
       \/ /\ args.tool_name.v = "ListingAudit"
          /\ args.features = PartialListingFeatures
          /\ Len(ret.val) = 2

---------------------------------------------------------------------------
(* score_feature with a zero threshold (checked under CallSpec).           *)

\* C27 (as claimed): for a rule of type ratio, count, threshold or gap whose
\* thr is 0, score_feature returns a score for every value and never fails
\* with a division by zero.
C27_ZeroThresholdGuarded ==
    (/\ Returned("score_feature")
     /\ args.rule.type \in {"ratio", "count", "threshold", "gap"}
     /\ Thr(args.rule) = Zero)
    => IsReturn(ret)

---------------------------------------------------------------------------
(* How runs leave the loop, and the Competitor switch (checked under Spec). *)

\* C29: every run leaves the loop through one of its two break statements,
\* never because step < 5 became false; at loop exit total_steps =
\* len(tool_results) + 1 = (number of trace step records) + 1, at most 4
\* probes are executed, and none in a fifth iteration.
C29_LoopEndsByBreak ==
    /\ [](pc \in {"final", "done"}
          => /\ exit_via \in {"terminate", "no_tool"}
             /\ step = Len(tool_results) + 1
             /\ step = Len(trace_steps) + 1)
    /\ [](pc = "done" => (IsReturn(ret) /\ ret.val.total_steps = Len(tool_results) + 1))
    /\ [](Len(tool_results) <= 4)
    /\ [][Len(tool_results') > Len(tool_results) => step < 5]_vars
    /\ <>(pc = "done")

\* A run in campaign mode has left the loop through the termination check
\* and reports one step for no result.
C29_Witness ==
    /\ pc = "done"
    /\ args.mode = "campaign"
    /\ exit_via = "terminate"
    /\ IsReturn(ret)
    /\ ret.val.total_steps = Len(tool_results) + 1
    /\ Len(trace_steps) + 1 = ret.val.total_steps

===========================================================================
